---------------------------- MODULE Spec2Model ----------------------------
(***************************************************************************)
(* Model of the grammar-item-graph builder of quentin (src/rule.rs,        *)
(* src/util/arena.rs).  One build_items call is unfolded into a state      *)
(* machine whose stack holds the build_item invocations in progress.       *)
(***************************************************************************)
EXTENDS Naturals, Integers, Sequences, FiniteSets, TLC

(***************************************************************************)
(* Bounds of the model.                                                    *)
(***************************************************************************)
\* longest rule list of a generated root Seq / Choice
MaxLen == 2
\* most cells and most set calls of a run of the arena alone
MaxCells == 3
MaxSets == 4
\* most put calls of a run of the Grammar alone
MaxPuts == 4

(***************************************************************************)
(* Strings.  A Rust String is its UTF-8 bytes; names are byte sequences.   *)
(***************************************************************************)
Byte == 0..255

\* the literal "(elided)"
ElidedName == <<40, 101, 108, 105, 100, 101, 100, 41>>

\* String::from_utf8 on a one-byte vector: a lone byte is valid UTF-8 only
\* when it is ASCII.  Ok(s) is <<s>>, Err is <<>>.
FromUtf8(bytes) ==
    IF \A i \in 1..Len(bytes) : bytes[i] < 128 THEN <<bytes>> ELSE <<>>

(***************************************************************************)
(* Rule keys (enum RuleKey) and the AsRuleKey conversions.                 *)
(***************************************************************************)
Ref(rule) == [kind |-> "Ref", rule |-> rule]
Lookup(k) == [kind |-> "Lookup", name |-> k]

\* an element of a rule list that is a &str / String
Str(s) == [type |-> "Str", s |-> s]

\* AsRuleKey::as_rule_key: a rule becomes a Ref key, a string a Lookup key
as_rule_key(e) == IF e.type = "Str" THEN Lookup(e.s) ELSE Ref(e)

(***************************************************************************)
(* Rules (the Rule implementors).                                          *)
(***************************************************************************)
Elide(r) == [type |-> "Elide", inner |-> r]

Seq_new(name, rules) == [type |-> "Seq", name |-> name, rules |-> rules]

Choice_new(name, rules) ==
    [type |-> "Choice", name |-> name, rules |-> rules, passthrough |-> FALSE]

Choice_passthrough(self) == [self EXCEPT !.passthrough = TRUE]

Term_new(val) == [type |-> "Term", val |-> val]

(***************************************************************************)
(* Items.                                                                  *)
(***************************************************************************)
CSeq(a, b) == [tag |-> "Seq", a |-> a, b |-> b]
CTerm(v) == [tag |-> "Term", val |-> v]
CEmpty == [tag |-> "Empty"]

Item(combinator, class, name) ==
    [combinator |-> combinator, class |-> class, name |-> name]

(***************************************************************************)
(* build_item, split into the keys it hands to the resolver, in call       *)
(* order, and the Item it returns given the handles the resolver returned. *)
(***************************************************************************)
\* variant: the tail of a Seq is re-wrapped without the Elide decorator
Tail_Seq_not_elided(self) == Ref(Seq_new(ElidedName, Tail(self.rules)))

Tail_Elided_Seq(self) == Ref(Elide(Seq_new(ElidedName, Tail(self.rules))))

Tail_Elided_Choice(self) == Ref(Elide(Choice_new(ElidedName, Tail(self.rules))))

\* variant: the tail of the list is handed to the resolver before the head
RECURSIVE resolver_calls_tail_first(_)
resolver_calls_tail_first(self) ==
    CASE self.type = "Term" -> <<>>
      [] self.type = "Seq" ->
            IF Len(self.rules) = 0 THEN <<>>
            ELSE <<Tail_Elided_Seq(self), as_rule_key(self.rules[1])>>
      [] self.type = "Choice" ->
            IF Len(self.rules) = 0 THEN <<>>
            ELSE <<Tail_Elided_Choice(self), as_rule_key(self.rules[1])>>
      [] self.type = "Elide" -> resolver_calls_tail_first(self.inner)

RECURSIVE resolver_calls(_)
resolver_calls(self) ==
    CASE self.type = "Term" -> <<>>
      [] self.type = "Seq" ->
            IF Len(self.rules) = 0 THEN <<>>
            ELSE <<as_rule_key(self.rules[1]), Tail_Elided_Seq(self)>>
      [] self.type = "Choice" ->
            IF Len(self.rules) = 0 THEN <<>>
            ELSE <<as_rule_key(self.rules[1]), Tail_Elided_Choice(self)>>
      [] self.type = "Elide" -> resolver_calls(self.inner)

\* Term::build_item: the name is the byte read as UTF-8, unwrap() panics
\* on Err.  <<item>> is a normal return, <<>> a panic.
Term_build_item(self) ==
    LET name == FromUtf8(<<self.val>>) IN
    IF name = <<>> THEN <<>>
    ELSE <<Item(CTerm(self.val), "Normal", name[1])>>

Seq_build_item(self, handles) ==
    <<Item(IF Len(self.rules) = 0 THEN CEmpty ELSE CSeq(handles[1], handles[2]),
           "Normal", self.name)>>

\* variant: the passthrough flag is ignored
Choice_class_normal(self) == "Normal"

Choice_class(self) == IF self.passthrough THEN "Passthrough" ELSE "Normal"

Choice_build_item(self, handles) ==
    <<Item(IF Len(self.rules) = 0 THEN CEmpty ELSE CSeq(handles[1], handles[2]),
           Choice_class(self), self.name)>>

\* variant: the wrapper renames the item but keeps its class
Elide_wrap_keeps_class(item) == Item(item.combinator, item.class, ElidedName)

Elide_wrap(item) == Item(item.combinator, "Elide", ElidedName)

RECURSIVE build_item(_, _)
build_item(self, handles) ==
    CASE self.type = "Term" -> Term_build_item(self)
      [] self.type = "Seq" -> Seq_build_item(self, handles)
      [] self.type = "Choice" -> Choice_build_item(self, handles)
      [] self.type = "Elide" ->
            LET item == build_item(self.inner, handles) IN
            IF item = <<>> THEN <<>> ELSE <<Elide_wrap(item[1])>>

(***************************************************************************)
(* Grammar: a map from names to rules.                                     *)
(***************************************************************************)
\* variant: an absent name yields a default empty rule instead of None
Grammar_get_or_default(map, k) ==
    IF k \in DOMAIN map THEN <<map[k]>> ELSE <<Seq_new(ElidedName, <<>>)>>

\* Grammar::get: Some(rule) is <<rule>>, None is <<>>
Grammar_get(map, k) == IF k \in DOMAIN map THEN <<map[k]>> ELSE <<>>

\* variant: a name already present keeps its rule
Grammar_put_map_keeps_first(map, name, v) ==
    [n \in DOMAIN map \cup {name} |-> IF n \in DOMAIN map THEN map[n] ELSE v]

\* Grammar::put, the map after HashMap::insert(name, v)
Grammar_put_map(map, name, v) ==
    [n \in DOMAIN map \cup {name} |-> IF n = name THEN v ELSE map[n]]

\* Grammar::put, what HashMap::insert(name, v) returns: the old value
Grammar_put_ret(map, name) == IF name \in DOMAIN map THEN <<map[name]>> ELSE <<>>

(***************************************************************************)
(* The forward arena: ref_alloc holds the OnceCells (0 is an unset cell,   *)
(* otherwise the index in alloc of the Item it refers to), alloc the       *)
(* Items.  A handle (ForwardRef) is an index of ref_alloc.                 *)
(***************************************************************************)
\* ForwardRef::get: 0 for None, else the index of the item
ForwardRef_get(cells, h) == cells[h]

\* variant: a set cell takes the new value
OnceCell_set_overwrites(cells, c, v) == [cells EXCEPT ![c] = v]

\* OnceCell::set: only an unset cell takes the value
OnceCell_set(cells, c, v) == IF cells[c] = 0 THEN [cells EXCEPT ![c] = v] ELSE cells


(***************************************************************************)
(* Inputs: the rules and grammars a build is run on.                       *)
(***************************************************************************)
\* item names given to the rules: "r", "p", "m", "q", "n"
NameR == <<114>>
NameP == <<112>>
NameM == <<109>>
NameQ == <<113>>
NameN == <<110>>

\* the terminals '2', '+', '*'
two_term == Term_new(50)
plus_term == Term_new(43)
mul_term == Term_new(42)

\* A grammar of two recursive rules registered by name with Grammar::put:
\* mono = '2' | ('2' '*' mono),  poly = mono | ('2' '+' poly).
\* Each rule refers back to itself by its name, a Lookup key; poly lists
\* the rule of mono itself, a Ref key.
times_rule == Seq_new(NameN, <<two_term, mul_term, Str("mono")>>)
mono_rule == Choice_new(NameM, <<two_term, times_rule>>)
plus_rule == Seq_new(NameQ, <<two_term, plus_term, Str("poly")>>)
poly_rule == Choice_new(NameP, <<mono_rule, plus_rule>>)
Arithmetic == [n \in {"poly", "mono"} |->
                  IF n = "poly" THEN poly_rule ELSE mono_rule]

\* A grammar whose rules reach each other both ways: mono refers to poly by
\* name, poly lists the rule of mono itself, a Ref key, and then its name.
\* mono = poly | '2',  poly = mono mono
mono_back == Choice_new(NameM, <<Str("poly"), two_term>>)
poly_back == Seq_new(NameP, <<mono_back, Str("mono")>>)
Nested == [n \in {"poly", "mono"} |->
              IF n = "poly" THEN poly_back ELSE mono_back]

\* names that may be registered; "undefined" never is
Names == {"poly", "mono"}

\* rules a generated grammar registers under a name
GRules ==
    { Seq_new(NameP, <<Str("poly"), Str("poly")>>),
      Choice_new(NameM, <<two_term, Str("mono")>>),
      Choice_passthrough(Choice_new(NameQ, <<Str("mono"), Str("poly")>>)) }

Grammars == {Arithmetic, Nested} \cup UNION { [S -> GRules] : S \in SUBSET Names }

\* elements of a generated root's rule list
Atoms == {two_term, Str("poly"), Str("mono"), Str("undefined"),
          Seq_new(NameN, <<Str("poly"), two_term>>)}

Lists == UNION { [1..n -> Atoms] : n \in 0..MaxLen }

ListRules ==
    { Seq_new(NameR, l) : l \in Lists }
    \cup { Choice_new(NameR, l) : l \in Lists }
    \cup { Choice_passthrough(Choice_new(NameR, l)) : l \in Lists }

Terms == { Term_new(b) : b \in Byte }

\* the terminals that also occur under the Elide wrapper
ElidedTerms == { Term_new(0), two_term, Term_new(127), Term_new(128), Term_new(255) }

\* the rules build_items is called on: generated list rules, every
\* terminal, the registered rules themselves, and rules under the Elide
\* wrapper (private to rule.rs, so those builds start inside the module)
Roots(g) ==
    ListRules \cup Terms
    \cup { Elide(x) : x \in ListRules \cup ElidedTerms }
    \cup { g[n] : n \in DOMAIN g }

(***************************************************************************)
(* State.                                                                  *)
(***************************************************************************)
VARIABLES
    r,            \* build_items' argument r: the root rule
    grammar,      \* build_items' argument g: the Grammar's map
    alloc,        \* ForwardArena.alloc: the Items, in allocation order
    ref_alloc,    \* ForwardArena.ref_alloc: the OnceCells, in allocation order
    lookup,       \* GrammarBuilder.lookup: name -> handle
    stack,        \* the do_build_grammar calls in progress, innermost last
    status,       \* "ready", "running", "done" or "panicked"
    panic,        \* which unwrap() panicked, "none" otherwise
    root,         \* ItemSet.root: index in alloc of the returned item, 0 before
    invocations,  \* history: the build_item calls do_build_grammar made
    resolutions,  \* history: the Lookup keys resolved and the handle returned
    returns,      \* history: the build_item calls that returned, and their Item
    first,        \* the graph an earlier build_items call returned, or <<>>
    puts          \* history: the Grammar::put calls and what each returned

vars == <<r, grammar, alloc, ref_alloc, lookup, stack, status, panic, root,
          invocations, resolutions, returns, first, puts>>

\* what a build_items call leaves alone: the earlier graph, the put calls
outside == <<first, puts>>

Init ==
    /\ grammar \in Grammars
    /\ r \in Roots(grammar)
    /\ alloc = <<>>
    /\ ref_alloc = <<>>
    /\ lookup = <<>>
    /\ stack = <<>>
    /\ status = "ready"
    /\ panic = "none"
    /\ root = 0
    /\ invocations = <<>>
    /\ resolutions = <<>>
    /\ returns = <<>>
    /\ first = <<>>
    /\ puts = <<>>

(***************************************************************************)
(* do_build_grammar.                                                       *)
(***************************************************************************)
Top == stack[Len(stack)]

\* the build_item call of the top frame still has resolver calls to make
Calling == status = "running" /\ Len(Top.got) < Len(resolver_calls(Top.rule))

\* the key it hands to the resolver next
NextKey == resolver_calls(Top.rule)[Len(Top.got) + 1]

\* ForwardArena::forward: a fresh unset OnceCell; its handle is its index
\* variant: a spare cell is allocated with every cell
forward_spare(cells) == Append(Append(cells, 0), 0)

forward(cells) == Append(cells, 0)

\* a build_item call entered for `rule`, its result to be set in `cell`
Frame(cell, rule, name) ==
    [cell |-> cell, rule |-> rule, name |-> name, keys |-> <<>>, got |-> <<>>]

\* the resolver returns handle h to the build_item call of the top frame
Returned(stk, h) ==
    [stk EXCEPT ![Len(stk)] = [@ EXCEPT !.got = Append(@, h)]]

\* the build_item call of the top frame hands key k to the resolver
Called(stk, k) ==
    [stk EXCEPT ![Len(stk)] = [@ EXCEPT !.keys = Append(@, k)]]

\* variant: a Ref key to a rule value built before returns that build's cell
RefArm_shared(stk, rule) ==
    LET built == { i \in DOMAIN invocations :
                     /\ invocations[i].via = "Ref"
                     /\ invocations[i].rule = rule
                     /\ ref_alloc[invocations[i].cell] # 0 }
    IN  /\ IF built = {}
           THEN /\ ref_alloc' = forward(ref_alloc)
                /\ stack' = Append(stk, Frame(Len(ref_alloc'), rule, ""))
                /\ invocations' = Append(invocations,
                       [via |-> "Ref", name |-> "", rule |-> rule,
                        cell |-> Len(ref_alloc')])
           ELSE /\ ref_alloc' = ref_alloc
                /\ stack' = Returned(stk, invocations[CHOOSE i \in built : TRUE].cell)
                /\ invocations' = invocations
        /\ UNCHANGED <<r, grammar, alloc, panic, root, resolutions, returns, outside>>

\* RuleKey::Ref arm: a fresh cell, then rule.build_item
RefArm(stk, rule) ==
    /\ ref_alloc' = forward(ref_alloc)
    /\ stack' = Append(stk, Frame(Len(ref_alloc'), rule, ""))
    /\ invocations' = Append(invocations,
           [via |-> "Ref", name |-> "", rule |-> rule, cell |-> Len(ref_alloc')])
    /\ UNCHANGED <<r, grammar, alloc, panic, root, resolutions, returns, outside>>

\* variant: the memo table starts with the root's cell under the names
\* the root rule is registered under
GrammarBuilder_lookup_seeded ==
    [n \in { m \in DOMAIN grammar : grammar[m] = r } |-> 1]

\* GrammarBuilder { lookup: HashMap::new(), .. }
GrammarBuilder_lookup == <<>>

\* build_items calls do_build_grammar on RuleKey::Ref(r), with a builder
\* whose memo table is empty
BuildItemsCall ==
    /\ status = "ready"
    /\ status' = "running"
    /\ lookup' = GrammarBuilder_lookup
    /\ RefArm(stack, r)

ResolveRef ==
    /\ Calling
    /\ NextKey.kind = "Ref"
    /\ RefArm(Called(stack, NextKey), NextKey.rule)
    /\ UNCHANGED <<status, lookup>>

\* RuleKey::Lookup arm, Some(pending) => pending
ResolveLookupHit ==
    /\ Calling
    /\ NextKey.kind = "Lookup"
    /\ NextKey.name \in DOMAIN lookup
    /\ stack' = Returned(Called(stack, NextKey), lookup[NextKey.name])
    /\ resolutions' = Append(resolutions,
           [name |-> NextKey.name, handle |-> lookup[NextKey.name], hit |-> TRUE])
    /\ UNCHANGED <<r, grammar, alloc, ref_alloc, lookup, status, panic, root,
                   invocations, returns, outside>>

\* variant: the memo entry is never written
Lookup_insert_forgets(map, k, h) == map

\* variant: the insert replaces the table instead of extending it
Lookup_insert_replaces(map, k, h) == [n \in {k} |-> h]

\* variant: the memo entry borrows the cell allocated before this one
Lookup_insert_stale(map, k, h) ==
    [n \in DOMAIN map \cup {k} |-> IF n = k THEN h - 1 ELSE map[n]]

\* variant: the grammar is asked first, and the entry written only for a
\* registered name
Lookup_insert_after_get(map, k, h) ==
    IF Grammar_get(grammar, k) = <<>> THEN map
    ELSE [n \in DOMAIN map \cup {k} |-> IF n = k THEN h ELSE map[n]]

\* lookup.insert(k, cell.borrow())
Lookup_insert(map, k, h) ==
    [n \in DOMAIN map \cup {k} |-> IF n = k THEN h ELSE map[n]]

\* RuleKey::Lookup arm, None: a fresh cell is memoized, then the grammar's
\* rule is built
ResolveLookupMiss ==
    /\ Calling
    /\ NextKey.kind = "Lookup"
    /\ NextKey.name \notin DOMAIN lookup
    /\ Grammar_get(grammar, NextKey.name) # <<>>
    /\ ref_alloc' = forward(ref_alloc)
    /\ lookup' = Lookup_insert(lookup, NextKey.name, Len(ref_alloc'))
    /\ stack' = Append(Called(stack, NextKey),
                       Frame(Len(ref_alloc'), Grammar_get(grammar, NextKey.name)[1],
                             NextKey.name))
    /\ invocations' = Append(invocations,
           [via |-> "Lookup", name |-> NextKey.name,
            rule |-> Grammar_get(grammar, NextKey.name)[1], cell |-> Len(ref_alloc')])
    /\ resolutions' = Append(resolutions,
           [name |-> NextKey.name, handle |-> Len(ref_alloc'), hit |-> FALSE])
    /\ UNCHANGED <<r, grammar, alloc, status, panic, root, returns, outside>>

\* RuleKey::Lookup arm, None, and grammar.get(k) is None: unwrap() panics
\* after the cell was allocated and memoized
ResolveLookupUnknown ==
    /\ Calling
    /\ NextKey.kind = "Lookup"
    /\ NextKey.name \notin DOMAIN lookup
    /\ Grammar_get(grammar, NextKey.name) = <<>>
    /\ ref_alloc' = forward(ref_alloc)
    /\ lookup' = Lookup_insert(lookup, NextKey.name, Len(ref_alloc'))
    /\ stack' = Called(stack, NextKey)
    /\ resolutions' = Append(resolutions,
           [name |-> NextKey.name, handle |-> Len(ref_alloc'), hit |-> FALSE])
    /\ status' = "panicked"
    /\ panic' = "GrammarGetNone"
    /\ UNCHANGED <<r, grammar, alloc, root, invocations, returns, outside>>

\* the build_item call of the top frame has made all its resolver calls
Finishing == status = "running" /\ Len(Top.got) = Len(resolver_calls(Top.rule))

\* Term::build_item's unwrap() of from_utf8 panics
BuildItemPanic ==
    /\ Finishing
    /\ build_item(Top.rule, Top.got) = <<>>
    /\ status' = "panicked"
    /\ panic' = "FromUtf8Error"
    /\ UNCHANGED <<r, grammar, alloc, ref_alloc, lookup, stack, root,
                   invocations, resolutions, returns, outside>>

\* the first item of `items` with the combinator and class of the last
Canonical(items) ==
    CHOOSE i \in 1..Len(items) :
        /\ items[i].combinator = items[Len(items)].combinator
        /\ items[i].class = items[Len(items)].class
        /\ \A j \in 1..(i - 1) :
              \/ items[j].combinator # items[Len(items)].combinator
              \/ items[j].class # items[Len(items)].class

\* variant: the cell is set to an equal item allocated earlier
ForwardCell_set_cells_dedup(cells, items, c) ==
    OnceCell_set(cells, c, Canonical(items))

\* ForwardCell::set: the item is allocated, the cell set once
ForwardCell_set_alloc(items, t) == Append(items, t)
ForwardCell_set_cells(cells, items, c) == OnceCell_set(cells, c, Len(items))

\* variant: the Lookup arm returns the borrowed handle without cell.set
cell_set_skips_named(cells, items, frame) ==
    IF frame.name # "" THEN cells
    ELSE OnceCell_set(cells, frame.cell, Len(items))

\* cell.set(...) as do_build_grammar calls it for the frame that returned
cell_set(cells, items, frame) == ForwardCell_set_cells(cells, items, frame.cell)

\* the build_item call of a frame returned `item`
Return(frame, item) ==
    [cell |-> frame.cell, rule |-> frame.rule, name |-> frame.name,
     keys |-> frame.keys, handles |-> frame.got, item |-> item]

\* build_item returned: cell.set(item), and the handle goes to the caller,
\* the build_item call one frame down
SetAndReturn ==
    /\ Finishing
    /\ Len(stack) > 1
    /\ build_item(Top.rule, Top.got) # <<>>
    /\ alloc' = ForwardCell_set_alloc(alloc, build_item(Top.rule, Top.got)[1])
    /\ ref_alloc' = cell_set(ref_alloc, alloc', Top)
    /\ stack' = Returned(SubSeq(stack, 1, Len(stack) - 1), Top.cell)
    /\ returns' = Append(returns, Return(Top, build_item(Top.rule, Top.got)[1]))
    /\ UNCHANGED <<r, grammar, lookup, status, panic, root, invocations,
                   resolutions, outside>>

\* the outermost do_build_grammar returned to build_items: .get().unwrap()
SetAndReturnRoot ==
    /\ Finishing
    /\ Len(stack) = 1
    /\ build_item(Top.rule, Top.got) # <<>>
    /\ alloc' = ForwardCell_set_alloc(alloc, build_item(Top.rule, Top.got)[1])
    /\ ref_alloc' = cell_set(ref_alloc, alloc', Top)
    /\ stack' = <<>>
    /\ returns' = Append(returns, Return(Top, build_item(Top.rule, Top.got)[1]))
    /\ IF ForwardRef_get(ref_alloc', Top.cell) = 0
       THEN status' = "panicked" /\ panic' = "RootUnbound" /\ root' = 0
       ELSE status' = "done" /\ panic' = panic
            /\ root' = ForwardRef_get(ref_alloc', Top.cell)
    /\ UNCHANGED <<r, grammar, lookup, invocations, resolutions, outside>>

Next ==
    \/ BuildItemsCall
    \/ ResolveRef
    \/ ResolveLookupHit
    \/ ResolveLookupMiss
    \/ ResolveLookupUnknown
    \/ BuildItemPanic
    \/ SetAndReturn
    \/ SetAndReturnRoot

Spec == Init /\ [][Next]_vars

TypeOK ==
    /\ status \in {"ready", "running", "done", "panicked"}
    /\ panic \in {"none", "GrammarGetNone", "FromUtf8Error", "RootUnbound"}
    /\ \A c \in 1..Len(ref_alloc) : ref_alloc[c] \in 0..Len(alloc)
    /\ root \in 0..Len(alloc)


(***************************************************************************)
(* The item graph.                                                         *)
(***************************************************************************)
\* the handles an item embeds: those of a Seq combinator
Succ(h) ==
    IF ref_alloc[h] = 0 THEN {}
    ELSE LET c == alloc[ref_alloc[h]].combinator IN
         IF c.tag = "Seq" THEN {c.a, c.b} ELSE {}

\* the handles reached from the handles S by following embedded handles
RECURSIVE ReachFrom(_)
ReachFrom(S) ==
    LET T == S \cup UNION { Succ(h) : h \in S } IN
    IF T = S THEN S ELSE ReachFrom(T)

\* the handles reached from h in one step or more
ReachPlus(h) == ReachFrom(Succ(h))

\* rule's own expansion (its list and the rules listed directly in it)
\* refers to name n
RECURSIVE Mentions(_, _)
Mentions(rule, n) ==
    CASE rule.type = "Term" -> FALSE
      [] rule.type = "Elide" -> Mentions(rule.inner, n)
      [] OTHER ->
            \E i \in 1..Len(rule.rules) :
                IF rule.rules[i].type = "Str" THEN rule.rules[i].s = n
                ELSE Mentions(rule.rules[i], n)

\* the names a build can meet
AllNames == Names \cup {"undefined"}

\* the build_item calls made through Lookup(n)
NamedBuilds(n) ==
    { i \in DOMAIN invocations :
        invocations[i].via = "Lookup" /\ invocations[i].name = n }

\* the build_item calls made on the rule registered under n, by any key
RuleBuilds(n) ==
    { i \in DOMAIN invocations : invocations[i].rule = grammar[n] }

\* the resolutions of Lookup(n)
Resolved(n) == { i \in DOMAIN resolutions : resolutions[i].name = n }

(***************************************************************************)
(* Claims.                                                                 *)
(***************************************************************************)

\* C1: during one build, the rule registered under a name is built at most
\* once through a Lookup key, and every resolution of the name after the
\* first returns the first one's handle without building again.
C1_NamedBuiltAtMostOnce ==
    \A n \in AllNames :
        /\ Cardinality(NamedBuilds(n)) <= 1
        /\ \A i, j \in Resolved(n) :
              /\ resolutions[i].handle = resolutions[j].handle
              /\ i < j => resolutions[j].hit
        /\ \A i \in Resolved(n) :
              resolutions[i].hit =>
                  \A k \in NamedBuilds(n) : invocations[k].cell = resolutions[i].handle

\* a name was resolved again while its own build_item was still running,
\* and got the pending, still unset, cell
C1_Witness ==
    \E f \in DOMAIN stack : \E i \in DOMAIN resolutions :
        /\ stack[f].name # ""
        /\ resolutions[i].name = stack[f].name
        /\ resolutions[i].hit
        /\ resolutions[i].handle = stack[f].cell
        /\ ref_alloc[stack[f].cell] = 0

\* C2 as stated: a registered rule referenced by name two times or more has
\* its build_item invoked exactly once in the whole build, and all the
\* references resolve to one handle.
C2_RuleBuiltExactlyOnce ==
    \A n \in DOMAIN grammar :
        Cardinality(Resolved(n)) >= 2 =>
            /\ Cardinality(RuleBuilds(n)) = 1
            /\ \A i, j \in Resolved(n) :
                  resolutions[i].handle = resolutions[j].handle

\* C2 amended: a registered rule referenced by name two times or more has
\* its build_item invoked exactly once through its name, and all the
\* references resolve to one handle; invocations through Ref keys (the
\* root) are not counted.
C2_NamedBuiltExactlyOnce ==
    \A n \in DOMAIN grammar :
        Cardinality(Resolved(n)) >= 2 =>
            /\ Cardinality(NamedBuilds(n)) = 1
            /\ \A k \in NamedBuilds(n) : invocations[k].rule = grammar[n]
            /\ \A i, j \in Resolved(n) :
                  resolutions[i].handle = resolutions[j].handle

\* a finished build in which a name was referenced from three places, by
\* build_item calls of at least two different rules
C2_Witness ==
    /\ status = "done"
    /\ \E n \in DOMAIN grammar :
          /\ Cardinality(Resolved(n)) >= 3
          /\ \E i, j \in DOMAIN returns :
                /\ returns[i].cell # returns[j].cell
                /\ Lookup(n) \in { returns[i].keys[k] : k \in DOMAIN returns[i].keys }
                /\ Lookup(n) \in { returns[j].keys[k] : k \in DOMAIN returns[j].keys }

\* C3: when build_items returns normally every cell allocated in the build
\* is set, so no handle reachable from the root is unset.
C3_AllCellsBound ==
    status = "done" =>
        /\ \A c \in 1..Len(ref_alloc) : ForwardRef_get(ref_alloc, c) # 0
        /\ \A n \in DOMAIN lookup : ForwardRef_get(ref_alloc, lookup[n]) # 0
        /\ \A h \in ReachFrom({1}) : ForwardRef_get(ref_alloc, h) # 0

\* a normal return of a build that allocated the root cell, Direct cells
\* and memoized Named cells
C3_Witness ==
    /\ status = "done"
    /\ DOMAIN lookup = Names
    /\ \E i \in DOMAIN invocations :
          invocations[i].via = "Ref" /\ invocations[i].cell # 1

\* every name the root or a registered rule refers to is registered
AllNamesRegistered ==
    \A n \in AllNames :
        (Mentions(r, n) \/ \E m \in DOMAIN grammar : Mentions(grammar[m], n))
            => n \in DOMAIN grammar

\* C4: build_items terminates for every finite grammar whose recursion goes
\* only through registered names: the build reaches its return and does not
\* end in a panic.
C4_ReachesReturn ==
    AllNamesRegistered => (status = "done" \/ ENABLED Next)

\* the built item of the rule registered under n, its cell and the
\* references to n agree, and the cell lies on a cycle of the graph that
\* the root reaches
CycleThrough(n) ==
    LET c == lookup[n] IN
    /\ \E k \in NamedBuilds(n) :
          invocations[k].cell = c /\ invocations[k].rule = grammar[n]
    /\ c \in ReachFrom({1})
    /\ c \in ReachPlus(c)
    /\ \A i \in DOMAIN returns : \A j \in DOMAIN returns[i].keys :
          returns[i].keys[j] = Lookup(n) => returns[i].handles[j] = c
    /\ \E i \in DOMAIN returns : \E j \in DOMAIN returns[i].keys :
          /\ returns[i].cell \in ReachFrom({c})
          /\ returns[i].keys[j] = Lookup(n)
          /\ alloc[ref_alloc[returns[i].cell]].combinator.tag = "Seq"
          /\ c \in Succ(returns[i].cell)

\* C5: for a self-recursive named rule the graph holds the cycle: the node
\* memoized for the name is reached from the root, and the self-reference
\* in its expansion is the memoized handle itself, so the node lies on a
\* cycle.
C5_CycleRepresented ==
    status = "done" =>
        \A n \in DOMAIN lookup :
            (n \in DOMAIN grammar /\ Mentions(grammar[n], n)) => CycleThrough(n)

\* the grammar of poly and mono built from poly's rule: poly's node is on
\* a cycle
C5_Witness ==
    /\ status = "done"
    /\ grammar = Arithmetic
    /\ r = poly_rule
    /\ "poly" \in DOMAIN lookup
    /\ lookup["poly"] \in ReachPlus(lookup["poly"])
    /\ Len(ref_alloc) = Len(alloc)

\* the handles (ForwardRef values) in existence: the memo table's, those
\* returned to the build_item calls in progress, those the items embed
HandlesHeld ==
    { lookup[n] : n \in DOMAIN lookup }
    \cup UNION { { stack[f].got[j] : j \in DOMAIN stack[f].got } : f \in DOMAIN stack }
    \cup UNION { Succ(h) : h \in 1..Len(ref_alloc) }

\* C6: resolving a name the grammar does not hold makes build_items fail
\* with the panic of the grammar lookup: no ItemSet is returned, the cell
\* memoized for the name stays unset, no item is put in its place, and no
\* handle to the root cell exists.
C6_UnknownNameFails ==
    \A i \in DOMAIN resolutions :
        resolutions[i].name \notin DOMAIN grammar =>
            /\ status = "panicked"
            /\ panic = "GrammarGetNone"
            /\ root = 0
            /\ i = Len(resolutions)
            /\ ~resolutions[i].hit
            /\ ForwardRef_get(ref_alloc, resolutions[i].handle) = 0
            /\ \A k \in DOMAIN invocations :
                  invocations[k].cell # resolutions[i].handle
            /\ 1 \notin HandlesHeld

\* a build that failed on the unregistered name after building other items
C6_Witness ==
    /\ panic = "GrammarGetNone"
    /\ resolutions[Len(resolutions)].name = "undefined"
    /\ Len(alloc) >= 1
    /\ root = 0

\* C7: for every byte b, Term::new(b).build_item succeeds, makes no
\* resolver call and returns the item Term(b) of class Normal.
C7_TermBuilds ==
    (r.type = "Term" /\ status # "ready") =>
        /\ status # "panicked"
        /\ resolutions = <<>>
        /\ Len(invocations) = 1
        /\ status = "done" =>
              /\ alloc[root].combinator = CTerm(r.val)
              /\ alloc[root].class = "Normal"

\* element e of a rule list was resolved to handle h
ResolvesTo(e, h) ==
    IF e.type = "Str" THEN e.s \in DOMAIN lookup /\ lookup[e.s] = h
    ELSE \E k \in DOMAIN invocations :
            /\ invocations[k].via = "Ref"
            /\ invocations[k].rule = e
            /\ invocations[k].cell = h

\* the item at handle h heads the right-folded chain of the list L
RECURSIVE ChainOK(_, _, _)
ChainOK(h, L, first_node) ==
    /\ ForwardRef_get(ref_alloc, h) # 0
    /\ LET it == alloc[ForwardRef_get(ref_alloc, h)] IN
       /\ ~first_node => it.class = "Elide"
       /\ IF Len(L) = 0 THEN it.combinator = CEmpty
          ELSE /\ it.combinator.tag = "Seq"
               /\ ResolvesTo(L[1], it.combinator.a)
               /\ it.combinator.b # h
               /\ ChainOK(it.combinator.b, Tail(L), FALSE)

\* C8: a Seq or a Choice over n keys builds a chain of n Seq nodes ended by
\* one Empty node; node i is Seq(resolve(element i), node i+1), an empty
\* list gives Empty, a one-element list gives Seq(resolve(r), Empty node),
\* and every node but the head has class Elide.
C8_RightFoldedChain ==
    \A i \in DOMAIN returns :
        returns[i].rule.type \in {"Seq", "Choice"} =>
            /\ alloc[ForwardRef_get(ref_alloc, returns[i].cell)] = returns[i].item
            /\ ChainOK(returns[i].cell, returns[i].rule.rules, TRUE)

\* a build returned chains of two elements, of one element and of none
C8_Witness ==
    /\ \E i \in DOMAIN returns :
          returns[i].rule.type = "Seq" /\ Len(returns[i].rule.rules) = 2
    /\ \E i \in DOMAIN returns :
          /\ returns[i].rule.type = "Choice"
          /\ Len(returns[i].rule.rules) = 1
          /\ returns[i].item.combinator.tag = "Seq"
          /\ alloc[ref_alloc[returns[i].item.combinator.b]].combinator = CEmpty
    /\ \E i \in DOMAIN returns :
          /\ returns[i].rule.type = "Elide"
          /\ Len(returns[i].rule.inner.rules) = 0
          /\ returns[i].item.combinator = CEmpty

\* C9: the Elide wrapper returns the combinator its inner rule's build_item
\* produces with the same resolver, with class Elide whatever the inner
\* class, and hands the resolver the inner rule's keys and no other.
C9_ElidePreservesCombinator ==
    \A i \in DOMAIN returns :
        returns[i].rule.type = "Elide" =>
            LET inner == build_item(returns[i].rule.inner, returns[i].handles) IN
            /\ inner # <<>>
            /\ returns[i].item.combinator = inner[1].combinator
            /\ returns[i].item.class = "Elide"
            /\ returns[i].keys = resolver_calls(returns[i].rule.inner)
            /\ alloc[ForwardRef_get(ref_alloc, returns[i].cell)] = returns[i].item

\* the wrapper returned over a passthrough Choice with alternatives
C9_Witness ==
    \E i \in DOMAIN returns :
        /\ returns[i].rule.type = "Elide"
        /\ returns[i].rule.inner.type = "Choice"
        /\ returns[i].rule.inner.passthrough
        /\ returns[i].item.combinator.tag = "Seq"
        /\ returns[i].item.class = "Elide"

\* the nodes of the chain that starts at handle h, following the tails
RECURSIVE ChainFrom(_)
ChainFrom(h) ==
    LET c == alloc[ForwardRef_get(ref_alloc, h)].combinator IN
    IF c.tag = "Seq" THEN {h} \cup ChainFrom(c.b) ELSE {h}

\* C10: the item built directly from a Choice is Passthrough exactly when
\* the flag is set and Normal otherwise, for empty and non-empty lists; the
\* tail nodes of its chain are Elide either way.
C10_ChoiceClass ==
    \A i \in DOMAIN returns :
        returns[i].rule.type = "Choice" =>
            /\ returns[i].item.class = "Passthrough" <=> returns[i].rule.passthrough
            /\ returns[i].item.class = "Normal" <=> ~returns[i].rule.passthrough
            /\ alloc[ForwardRef_get(ref_alloc, returns[i].cell)].class
                  = returns[i].item.class
            /\ returns[i].item.combinator.tag = "Seq" =>
                  \A h \in ChainFrom(returns[i].item.combinator.b) :
                      alloc[ForwardRef_get(ref_alloc, h)].class = "Elide"

\* a passthrough Choice with alternatives and an empty one both returned
C10_Witness ==
    /\ \E i \in DOMAIN returns :
          /\ returns[i].rule.type = "Choice"
          /\ returns[i].rule.passthrough
          /\ Len(returns[i].rule.rules) >= 1
          /\ returns[i].item.class = "Passthrough"
          /\ alloc[ref_alloc[returns[i].item.combinator.b]].class = "Elide"
    /\ status = "done"

(***************************************************************************)
(* A second build_items call on the same rule and grammar.                 *)
(***************************************************************************)
\* ForwardArena::new: both arenas empty
ForwardArena_new == <<>>

\* the graph a finished build returned: the arena and the root item
Graph == [alloc |-> alloc, ref_alloc |-> ref_alloc, root |-> root]

(***************************************************************************)
(* The forward arena on its own: cells are reserved and set in any order,  *)
(* a set cell included.                                                    *)
(***************************************************************************)
\* the values the cells are set to
ArenaItems ==
    { Item(CTerm(50), "Normal", <<50>>),
      Item(CEmpty, "Elide", ElidedName),
      Item(CSeq(1, 1), "Normal", NameR) }

InitArena ==
    /\ grammar = <<>>
    /\ r = two_term
    /\ alloc = ForwardArena_new
    /\ ref_alloc = ForwardArena_new
    /\ lookup = <<>>
    /\ stack = <<>>
    /\ status = "ready"
    /\ panic = "none"
    /\ root = 0
    /\ invocations = <<>>
    /\ resolutions = <<>>
    /\ returns = <<>>
    /\ first = <<>>
    /\ puts = <<>>

\* ForwardArena::forward
ArenaForward ==
    /\ Len(ref_alloc) < MaxCells
    /\ ref_alloc' = forward(ref_alloc)
    /\ UNCHANGED <<r, grammar, alloc, lookup, stack, status, panic, root,
                   invocations, resolutions, returns, outside>>

\* ForwardCell::set on cell c: the value is allocated, and the OnceCell
\* takes it when it is unset
ArenaSet ==
    /\ Len(alloc) < MaxSets
    /\ \E c \in 1..Len(ref_alloc) : \E t \in ArenaItems :
          /\ alloc' = ForwardCell_set_alloc(alloc, t)
          /\ ref_alloc' = ForwardCell_set_cells(ref_alloc, alloc', c)
    /\ UNCHANGED <<r, grammar, lookup, stack, status, panic, root,
                   invocations, resolutions, returns, outside>>

NextArena == ArenaForward \/ ArenaSet

ArenaSpec == InitArena /\ [][NextArena]_vars

\* C12: a forward-reference cell is write-once: its handles read None
\* until it is set, the first-set value from then on, and a later set of
\* the same cell leaves the value read through every handle unchanged.
C12_WriteOnce ==
    [][\A c \in 1..Len(ref_alloc) :
          /\ ForwardRef_get(ref_alloc, c) # 0 =>
                /\ ForwardRef_get(ref_alloc', c) = ForwardRef_get(ref_alloc, c)
                /\ alloc'[ForwardRef_get(ref_alloc', c)]
                      = alloc[ForwardRef_get(ref_alloc, c)]
          /\ (ForwardRef_get(ref_alloc, c) = 0 /\ ForwardRef_get(ref_alloc', c) # 0) =>
                /\ Len(alloc') = Len(alloc) + 1
                /\ ForwardRef_get(ref_alloc', c) = Len(alloc')]_vars

\* the only cell was set twice, to different values, and reads the first
C12_Witness ==
    /\ Len(ref_alloc) = 1
    /\ Len(alloc) = 2
    /\ alloc[1] # alloc[2]
    /\ ForwardRef_get(ref_alloc, 1) = 1

(***************************************************************************)
(* Sharing of nodes.                                                       *)
(***************************************************************************)
\* the places a handle was returned to: <<i, j>> is the j-th resolver call
\* of the i-th build_item call that returned
Uses == { <<i, j>> : i \in DOMAIN returns, j \in 1..2 }

UsesOf(h) ==
    { u \in Uses : u[2] \in DOMAIN returns[u[1]].handles
                   /\ returns[u[1]].handles[u[2]] = h }

\* C13 as stated: in the returned graph two items of equal combinator and
\* class are one and the same node.
C13_EqualItemsShared ==
    status = "done" =>
        \A c, d \in 1..Len(ref_alloc) :
            (/\ alloc[ref_alloc[c]].combinator = alloc[ref_alloc[d]].combinator
             /\ alloc[ref_alloc[c]].class = alloc[ref_alloc[d]].class)
                => ref_alloc[c] = ref_alloc[d]

\* C13 amended: the returned graph is not deduplicated: every build_item
\* call has a node of its own, whatever its content, and a node is
\* embedded in two places only when both are Lookup keys of one name.
C13_NodesNotShared ==
    status = "done" =>
        /\ \A i, j \in DOMAIN returns :
              i # j =>
                  /\ returns[i].cell # returns[j].cell
                  /\ ref_alloc[returns[i].cell] # ref_alloc[returns[j].cell]
        /\ \A h \in 1..Len(ref_alloc) : \A u, v \in UsesOf(h) :
              u # v =>
                  /\ returns[u[1]].keys[u[2]].kind = "Lookup"
                  /\ returns[u[1]].keys[u[2]] = returns[v[1]].keys[v[2]]

\* a returned graph with two different nodes that are both Empty and Elide
C13_Witness ==
    /\ status = "done"
    /\ \E c, d \in 1..Len(ref_alloc) :
          /\ ref_alloc[c] # ref_alloc[d]
          /\ alloc[ref_alloc[c]].combinator = CEmpty
          /\ alloc[ref_alloc[d]].combinator = CEmpty
          /\ alloc[ref_alloc[c]].class = "Elide"
          /\ alloc[ref_alloc[d]].class = "Elide"

(***************************************************************************)
(* The Grammar on its own: rules are put under names in any order.         *)
(***************************************************************************)
\* the rules put in the grammar
PutRules == GRules \cup {two_term}

\* Grammar::new: the empty map; nothing is being built
InitGrammar == InitArena

\* Grammar::put(name, v)
GrammarPut ==
    /\ Len(puts) < MaxPuts
    /\ \E name \in Names : \E v \in PutRules :
          /\ grammar' = Grammar_put_map(grammar, name, v)
          /\ puts' = Append(puts, [name |-> name, rule |-> v,
                                   prev |-> Grammar_put_ret(grammar, name)])
    /\ UNCHANGED <<r, alloc, ref_alloc, lookup, stack, status, panic, root,
                   invocations, resolutions, returns, first>>

NextGrammar == GrammarPut

GrammarSpec == InitGrammar /\ [][NextGrammar]_vars

\* the put calls on name n among the first k
PutsOf(n, k) == { i \in 1..k : puts[i].name = n }

\* the greatest element of a non-empty set of numbers
Latest(S) == CHOOSE i \in S : \A j \in S : j <= i

\* C14: after any put calls, get(name) is the rule of the latest put on
\* the name and None for a name never put; put returns the rule stored
\* under the name before; a put on one name leaves get of the others.
C14_LastWriteWins ==
    /\ \A n \in AllNames :
          Grammar_get(grammar, n) =
              IF PutsOf(n, Len(puts)) = {} THEN <<>>
              ELSE <<puts[Latest(PutsOf(n, Len(puts)))].rule>>
    /\ \A i \in DOMAIN puts :
          puts[i].prev =
              IF PutsOf(puts[i].name, i - 1) = {} THEN <<>>
              ELSE <<puts[Latest(PutsOf(puts[i].name, i - 1))].rule>>

\* a name was put twice with different rules around a put on another name
C14_Witness ==
    /\ Len(puts) = 3
    /\ puts[1].name = "poly"
    /\ puts[2].name = "mono"
    /\ puts[3].name = "poly"
    /\ puts[3].rule # puts[1].rule
    /\ puts[3].prev = <<puts[1].rule>>
    /\ Grammar_get(grammar, "poly") = <<puts[3].rule>>
    /\ Grammar_get(grammar, "mono") = <<puts[2].rule>>

\* the build_item calls that returned into the cell c
ReturnsInto(c) == { i \in DOMAIN returns : returns[i].cell = c }

\* C15: the first resolution of Lookup(n) writes the memo entry n -> fresh
\* unset cell before it asks the grammar for n and before build_item runs,
\* and the cell is set only after build_item returned: while n's build_item
\* runs the memo table maps n to a cell that is still unset.
C15_MemoBeforeBuild ==
    /\ \A f \in DOMAIN stack :
          stack[f].name # "" =>
              /\ stack[f].name \in DOMAIN lookup
              /\ lookup[stack[f].name] = stack[f].cell
              /\ ForwardRef_get(ref_alloc, stack[f].cell) = 0
              /\ ReturnsInto(stack[f].cell) = {}
    /\ panic = "GrammarGetNone" =>
          /\ resolutions[Len(resolutions)].name \in DOMAIN lookup
          /\ lookup[resolutions[Len(resolutions)].name] = Len(ref_alloc)
          /\ ForwardRef_get(ref_alloc, Len(ref_alloc)) = 0
    /\ \A i \in DOMAIN invocations :
          (/\ invocations[i].via = "Lookup"
           /\ ForwardRef_get(ref_alloc, invocations[i].cell) # 0)
              => ReturnsInto(invocations[i].cell) # {}

\* build_item of a name is two resolver calls in, a build_item it called is
\* running, and the name's cell is memoized and unset
C15_Witness ==
    \E f \in DOMAIN stack :
        /\ stack[f].name # ""
        /\ f < Len(stack)
        /\ Len(stack[f].got) >= 1
        /\ stack[f].name \in DOMAIN lookup
        /\ ForwardRef_get(ref_alloc, lookup[stack[f].name]) = 0

(***************************************************************************)
(* The walk of the rule tree, computed from the rules and the grammar      *)
(* alone: lists left to right, a name's rule entered where the name is     *)
(* first met.                                                              *)
(***************************************************************************)
\* the rule under its Elide wrappers
RECURSIVE Unwrapped(_)
Unwrapped(rule) == IF rule.type = "Elide" THEN Unwrapped(rule.inner) ELSE rule

\* acc.occ lists the names in the order met, each with whether it was met
\* before; acc.seen is the set of names met
RECURSIVE WalkRule(_, _)
RECURSIVE WalkList(_, _)
WalkRule(rule, acc) ==
    CASE rule.type = "Term" -> acc
      [] rule.type = "Elide" -> WalkRule(rule.inner, acc)
      [] OTHER -> WalkList(rule.rules, acc)

WalkList(rules, acc) ==
    IF rules = <<>> THEN acc
    ELSE LET e == Head(rules)
             met == [occ |-> Append(acc.occ, [name |-> e.s, hit |-> e.s \in acc.seen]),
                     seen |-> acc.seen \cup {e.s}]
         IN  WalkList(Tail(rules),
                 IF e.type # "Str" THEN WalkRule(e, acc)
                 ELSE IF e.s \in acc.seen \/ e.s \notin DOMAIN grammar THEN met
                 ELSE WalkRule(grammar[e.s], met))

\* the walk from the root rule
Walk == WalkRule(r, [occ |-> <<>>, seen |-> {}]).occ

\* the resolver calls of a list rule are made head first: the head's key,
\* then the key of the rest of the list, whose cell is allocated after
\* every cell of the head
LeftToRight ==
    /\ \A f \in DOMAIN stack :
          /\ Len(stack[f].keys) >= 1 =>
                stack[f].keys[1] = as_rule_key(Unwrapped(stack[f].rule).rules[1])
          /\ Len(stack[f].keys) = 2 =>
                /\ Len(stack[f].got) >= 1
                /\ stack[f].keys[2].kind = "Ref"
                /\ Unwrapped(stack[f].keys[2].rule).rules
                       = Tail(Unwrapped(stack[f].rule).rules)
    /\ \A i \in DOMAIN returns :
          Len(returns[i].keys) > 0 =>
              /\ returns[i].keys[1] = as_rule_key(Unwrapped(returns[i].rule).rules[1])
              /\ returns[i].item.combinator
                     = CSeq(returns[i].handles[1], returns[i].handles[2])
              /\ returns[i].handles[1] < returns[i].handles[2]
              /\ returns[i].handles[1] <= returns[i].cell + 1

\* the memo entry of a name is made where the walk first meets the name
MemoAtFirstOccurrence ==
    /\ Len(resolutions) <= Len(Walk)
    /\ \A i \in DOMAIN resolutions :
          /\ resolutions[i].name = Walk[i].name
          /\ resolutions[i].hit = Walk[i].hit
          /\ resolutions[i].name \in DOMAIN lookup
          /\ lookup[resolutions[i].name] = resolutions[i].handle
    /\ \A n \in DOMAIN lookup : Resolved(n) # {}
    /\ status = "done" => Len(resolutions) = Len(Walk)

\* the frames whose resolver call for the tail has begun
TailBegun == { f \in DOMAIN stack : Len(stack[f].keys) = 2 }

\* the cells of the resolutions in progress at frame f and below it
Pending(f) == { stack[g].cell : g \in 1..f }

\* C16 as stated: the walk is depth first and left to right; when the
\* resolution of a list's tail begins every node of the head's subgraph is
\* built; each name's memo entry is made at the name's first occurrence.
C16_HeadBuiltBeforeTail ==
    /\ \A f \in TailBegun :
          \A h \in ReachFrom({stack[f].got[1]}) : ForwardRef_get(ref_alloc, h) # 0
    /\ LeftToRight
    /\ MemoAtFirstOccurrence

\* C16 amended: the walk is depth first and left to right; when the
\* resolution of a list's tail begins every node of the head's subgraph is
\* built, except the nodes of the names whose own resolution is still in
\* progress around this list; each name's memo entry is made at the name's
\* first occurrence.
C16_HeadBuiltOrPending ==
    /\ \A f \in TailBegun :
          \A h \in ReachFrom({stack[f].got[1]}) :
              ForwardRef_get(ref_alloc, h) # 0 \/ h \in Pending(f)
    /\ LeftToRight
    /\ MemoAtFirstOccurrence

\* the tail of a list is being resolved; the head was a name first met
\* there, whose subgraph of two nodes or more is built
C16_Witness ==
    \E f \in TailBegun :
        /\ stack[f].keys[1].kind = "Lookup"
        /\ stack[f].got[1] = stack[f].cell + 1
        /\ Cardinality(ReachFrom({stack[f].got[1]})) >= 2
        /\ \A h \in ReachFrom({stack[f].got[1]}) : ForwardRef_get(ref_alloc, h) # 0

(***************************************************************************)
(* A Choice and a Seq over one list: after the build of a Choice that is   *)
(* not passthrough, build_items is called on the Seq of the same name and  *)
(* list, with the same grammar and a new arena.                            *)
(***************************************************************************)
\* Seq::new(name, rules) for the name and list of a Choice
AsSeq(choice) == Seq_new(choice.name, choice.rules)

BuildSeqOfChoice ==
    /\ status = "done"
    /\ first = <<>>
    /\ r.type = "Choice"
    /\ ~r.passthrough
    /\ Len(r.rules) > 0
    /\ first' = <<Graph>>
    /\ r' = AsSeq(r)
    /\ alloc' = ForwardArena_new
    /\ ref_alloc' = forward(ForwardArena_new)
    /\ lookup' = GrammarBuilder_lookup
    /\ stack' = <<Frame(1, r', "")>>
    /\ invocations' = <<[via |-> "Ref", name |-> "", rule |-> r', cell |-> 1]>>
    /\ resolutions' = <<>>
    /\ returns' = <<>>
    /\ status' = "running"
    /\ root' = 0
    /\ UNCHANGED <<grammar, panic, puts>>

NextPair == Next \/ BuildSeqOfChoice

PairSpec == Init /\ [][NextPair]_vars

\* the items of graph g from handle h along the second handles of the Seq
\* combinators: the chain of a list
RECURSIVE ChainItems(_, _)
ChainItems(g, h) ==
    IF g.ref_alloc[h] = 0 THEN <<>>
    ELSE LET item == g.alloc[g.ref_alloc[h]] IN
         <<item>> \o (IF item.combinator.tag = "Seq"
                      THEN ChainItems(g, item.combinator.b) ELSE <<>>)

\* C17: the chain built from a Choice that is not passthrough over a
\* non-empty list differs from the chain built from a Seq over the same
\* list, at some node, in the combinator or in the class.
C17_ChoiceChainDiffers ==
    (status = "done" /\ first # <<>>) =>
        LET choice == ChainItems(first[1], 1)
            seq == ChainItems(Graph, 1)
        IN  \/ Len(choice) # Len(seq)
            \/ \E k \in 1..Len(choice) :
                  \/ choice[k].combinator # seq[k].combinator
                  \/ choice[k].class # seq[k].class

\* the build_item calls made through Ref keys
RefBuilds == { i \in DOMAIN invocations : invocations[i].via = "Ref" }

\* the resolver calls, of build_item calls in progress and returned, that
\* handed over the key Ref(v)
StackPlaces(v) ==
    { p \in (DOMAIN stack) \X (1..2) :
        p[2] <= Len(stack[p[1]].keys) /\ stack[p[1]].keys[p[2]] = Ref(v) }

ReturnPlaces(v) ==
    { p \in (DOMAIN returns) \X (1..2) :
        p[2] <= Len(returns[p[1]].keys) /\ returns[p[1]].keys[p[2]] = Ref(v) }

\* the number of places that handed the key Ref(v) to the resolver,
\* build_items for the root included
RefPlaces(v) ==
    Cardinality(StackPlaces(v)) + Cardinality(ReturnPlaces(v))
        + (IF v = r /\ status # "ready" THEN 1 ELSE 0)

\* C18: every resolution of a Ref key takes a fresh cell, calls build_item
\* of the rule and sets that cell to the item returned, and the memo table
\* is neither read nor written: a rule value handed over as a Ref key from N
\* places has N build_item calls with N different cells.
C18_RefAlwaysBuilds ==
    /\ \A i \in RefBuilds :
          /\ \A j \in DOMAIN invocations : j # i => invocations[j].cell # invocations[i].cell
          /\ \A n \in DOMAIN lookup : lookup[n] # invocations[i].cell
          /\ Cardinality({ j \in RefBuilds : invocations[j].rule = invocations[i].rule })
                 = RefPlaces(invocations[i].rule)
    /\ \A n \in DOMAIN lookup :
          \E i \in Resolved(n) :
              ~resolutions[i].hit /\ resolutions[i].handle = lookup[n]
    /\ \A i \in DOMAIN returns :
          returns[i].name = "" =>
              /\ ForwardRef_get(ref_alloc, returns[i].cell) # 0
              /\ alloc[ForwardRef_get(ref_alloc, returns[i].cell)] = returns[i].item
              /\ \E j \in RefBuilds :
                    /\ invocations[j].cell = returns[i].cell
                    /\ invocations[j].rule = returns[i].rule

\* a finished build in which one rule value was handed over as a Ref key
\* from two places and has two nodes
C18_Witness ==
    /\ status = "done"
    /\ \E i, j \in RefBuilds :
          /\ i # j
          /\ invocations[i].rule = invocations[j].rule
          /\ invocations[i].cell # invocations[j].cell
          /\ ForwardRef_get(ref_alloc, invocations[i].cell)
                 # ForwardRef_get(ref_alloc, invocations[j].cell)
          /\ RefPlaces(invocations[i].rule) = 2

\* the names registered to the root rule that the build resolved
RootNames == { n \in DOMAIN grammar : grammar[n] = r /\ Resolved(n) # {} }

\* the root's cell is never a value of the memo table, and a resolved name
\* registered to the root rule has a node of its own
RootNotMemoized ==
    /\ \A n \in DOMAIN lookup : lookup[n] # 1
    /\ status = "done" =>
          \A n \in RootNames :
              /\ ForwardRef_get(ref_alloc, lookup[n]) # 0
              /\ ForwardRef_get(ref_alloc, lookup[n]) # root

\* C19 as stated: the root is resolved by a Ref key, so its cell is never
\* a value of the memo table; when the root rule is registered under a name
\* that the build resolves, the name has a second node, not the root, and
\* build_item of the root rule runs twice.
C19_RootRuleBuiltTwice ==
    /\ RootNotMemoized
    /\ status = "done" =>
          \A n \in RootNames : Cardinality(RuleBuilds(n)) = 2

\* C19 amended: the same, and build_item of the root rule runs at least
\* twice: once for the root, once for every resolved name registered to
\* the root rule, and once for every other Ref key to the root rule that
\* the build hands to the resolver.
C19_RootRuleBuiltPerKey ==
    /\ RootNotMemoized
    /\ status = "done" =>
          \A n \in RootNames :
              /\ Cardinality(RuleBuilds(n)) >= 2
              /\ Cardinality(RuleBuilds(n)) = RefPlaces(r) + Cardinality(RootNames)
              /\ Cardinality(RuleBuilds(n) \cap RefBuilds) = RefPlaces(r)
              /\ \A m \in RootNames : Cardinality(RuleBuilds(n) \cap NamedBuilds(m)) = 1

\* a finished build whose root rule is registered under one resolved name
\* and listed by a rule the build reached: three build_item calls of the
\* root rule, one by the name, whose node is not the root
C19_Witness ==
    /\ status = "done"
    /\ \E n \in RootNames :
          /\ RootNames = {n}
          /\ RefPlaces(r) = 2
          /\ Cardinality(RuleBuilds(n)) = 3
          /\ ForwardRef_get(ref_alloc, lookup[n]) # root
          /\ alloc[ForwardRef_get(ref_alloc, lookup[n])].name = alloc[root].name

\* the cells of the resolutions in progress: those of the build_item calls
\* on the stack and, when grammar.get(k).unwrap() panicked, the cell that
\* resolution had just allocated
InProgress ==
    { stack[f].cell : f \in DOMAIN stack }
        \cup (IF panic = "GrammarGetNone" THEN {Len(ref_alloc)} ELSE {})

\* the cells not set
Unset == { c \in 1..Len(ref_alloc) : ForwardRef_get(ref_alloc, c) = 0 }

\* the resolver calls of the returned build_item calls that did not return
\* a memoized handle: every Ref key, every first Lookup of a name, and the
\* call of build_items for the root
Misses ==
    Cardinality({ i \in DOMAIN resolutions : ~resolutions[i].hit })
        + Cardinality({ p \in (DOMAIN returns) \X (1..2) :
                          /\ p[2] <= Len(returns[p[1]].keys)
                          /\ returns[p[1]].keys[p[2]].kind = "Ref" })
        + 1

\* C20: at every point of a build the unset cells are exactly the cells of
\* the resolutions in progress, every other cell is set, and no two cells
\* are set to one item; at a normal return there are as many items as
\* cells and as resolver calls that did not return a memoized handle.
C20_CellsAndItems ==
    /\ Unset = InProgress
    /\ \A c \in 1..Len(ref_alloc) : c \notin InProgress => ForwardRef_get(ref_alloc, c) # 0
    /\ \A c, d \in (1..Len(ref_alloc)) \ Unset :
          c # d => ForwardRef_get(ref_alloc, c) # ForwardRef_get(ref_alloc, d)
    /\ Len(alloc) = Len(ref_alloc) - Cardinality(Unset)
    /\ status = "done" =>
          /\ Len(alloc) = Len(ref_alloc)
          /\ Len(ref_alloc) = Misses

\* three resolutions are in progress, their cells unset, and two cells or
\* more are set
C20_Witness ==
    /\ status = "running"
    /\ Len(stack) >= 3
    /\ Len(alloc) >= 2
    /\ Cardinality(Unset) = Len(stack)
    /\ \E i \in DOMAIN resolutions : resolutions[i].hit

=============================================================================
